---- MODULE Spec2Model ----
(***************************************************************************)
(* GenerateTimeChannel (sionna/channel/generate_time_channel.py).          *)
(*                                                                         *)
(* The generator object holds a sampler reference and scalar               *)
(* configuration.  A call invokes the sampler and hands the impulse        *)
(* response (h, tau) to cir_to_time_channel, whose result it returns.      *)
(*                                                                         *)
(* Numbers.  Path gains are Gaussian integers <<re, im>>.  Delays are      *)
(* counted in half time units, so that bandwidth * delay is a multiple of  *)
(* half a sample.  Taps are fixed-point complex numbers in units of        *)
(* 1 / SCALE.  A value that floating point would make NaN is <<>>.         *)
(***************************************************************************)
EXTENDS Integers, Sequences, FiniteSets

\* ------------------------------------------------------------------ bounds
MaxLag == 1             \* l_min, l_max range over -MaxLag .. MaxLag
MaxSamples == 2         \* num_time_samples ranges over 0 .. MaxSamples
MaxBandwidth == 2       \* bandwidth ranges over 0 .. MaxBandwidth
MaxBatch == 2           \* batch sizes 1 .. MaxBatch
MaxPaths == 2           \* paths per impulse response 1 .. MaxPaths
MaxDelay == 1           \* path delays 0 .. MaxDelay half time units
NumLinks == 2           \* antenna pairs of the channel model
SCALE == 1000           \* fixed-point resolution of a tap
ROOTQ == 4              \* extra resolution of the square root of the energy
TolPerMille == 10       \* tolerance of the unit-energy comparison

VARIABLES
    constructed,    \* __init__ has run
    given,          \* the arguments __init__ was called with
    self,           \* the generator's attributes
    pc,             \* per caller: position in __call__
    batch_size,     \* per caller: the argument of __call__ (<<>> is None)
    invoked,        \* per caller: the sampler invocations of the current call
    h,              \* per caller: local h (path gains)
    tau,            \* per caller: local tau (path delays)
    hm,             \* per caller: the returned tensor
    err             \* per caller: the exception the call ended in

vars == <<constructed, given, self, pc, batch_size, invoked, h, tau, hm, err>>

Callers == {1, 2}

None == << >>
NoError == "none"

\* ------------------------------------------------------- complex arithmetic
NaN == << >>
IsFinite(z) == Len(z) = 2
CZero == <<0, 0>>
CAdd(x, y) == <<x[1] + y[1], x[2] + y[2]>>
CScale(z, r) == <<z[1] * r, z[2] * r>>
CMul(x, y) == <<x[1] * y[1] - x[2] * y[2], x[1] * y[2] + x[2] * y[1]>>
AbsSq(z) == z[1] * z[1] + z[2] * z[2]
Abs(n) == IF n < 0 THEN -n ELSE n

RECURSIVE CSum(_)
CSum(s) == IF s = << >> THEN CZero ELSE CAdd(Head(s), CSum(Tail(s)))

RECURSIVE NSum(_)
NSum(s) == IF s = << >> THEN 0 ELSE Head(s) + NSum(Tail(s))

\* sinc(n / 2) in units of 1 / SCALE, sinc(x) = sin(pi x) / (pi x), sinc(0) = 1,
\* with pi taken as 355 / 113
Sinc2(n) ==
    IF n = 0 THEN SCALE
    ELSE IF n % 2 = 0 THEN 0
    ELSE LET mag == (2 * SCALE * 113) \div (355 * Abs(n))
         IN  IF Abs(n) % 4 = 1 THEN mag ELSE -mag

\* floor of the square root
RECURSIVE ISqrtIn(_, _, _)
ISqrtIn(n, lo, hi) ==
    IF lo >= hi THEN lo
    ELSE LET mid == (lo + hi + 1) \div 2
         IN  IF mid * mid <= n THEN ISqrtIn(n, mid, hi) ELSE ISqrtIn(n, lo, mid - 1)

ISqrt(n) == ISqrtIn(n, 0, 46340)

\* x / d rounded to the nearest integer, d > 0
DivRound(x, d) ==
    IF x >= 0 THEN (2 * x + d) \div (2 * d) ELSE -((2 * (-x) + d) \div (2 * d))

\* ------------------------------------------------------------ tensor shapes
\* h: [batch][link][path][time], tau: [batch][path], hm: [batch][link][time][lag]
BatchDim(t) == Len(t)
PathDim(a) == Len(a[1][1])
TimeDim(a) == Len(a[1][1][1])
HmTimeDim(x) == Len(x[1][1])
HmLagDim(x) == Len(x[1][1][1])

\* --------------------------------------------------------------- __init__
ChannelModel == "channel_model"

\* faulty variant: l_tot counts the lags short by one
GenerateTimeChannelShort(channel_model, bandwidth, num_time_samples, l_min, l_max, normalize_channel) ==
    [cir_sampler       |-> channel_model,
     l_min             |-> l_min,
     l_max             |-> l_max,
     l_tot             |-> l_max - l_min,
     bandwidth         |-> bandwidth,
     num_time_steps    |-> num_time_samples,
     normalize_channel |-> normalize_channel]

GenerateTimeChannel(channel_model, bandwidth, num_time_samples, l_min, l_max, normalize_channel) ==
    [cir_sampler       |-> channel_model,
     l_min             |-> l_min,
     l_max             |-> l_max,
     l_tot             |-> l_max - l_min + 1,
     bandwidth         |-> bandwidth,
     num_time_steps    |-> num_time_samples,
     normalize_channel |-> normalize_channel]

\* the attributes of an object on which __init__ has not run yet
Blank == GenerateTimeChannel("unset", 0, 0, 0, 0, FALSE)

\* a constructor argument list
Args(bandwidth, num_time_samples, l_min, l_max, normalize_channel) ==
    [bandwidth |-> bandwidth, num_time_samples |-> num_time_samples,
     l_min |-> l_min, l_max |-> l_max, normalize_channel |-> normalize_channel]

AllArgs ==
    {Args(w, n, lo, hi, nc) :
        w \in 0..MaxBandwidth, n \in 0..MaxSamples,
        lo \in (-MaxLag)..MaxLag, hi \in (-MaxLag)..MaxLag, nc \in BOOLEAN}

\* the arguments the interface documents: l_min <= l_max, a positive
\* bandwidth, at least one time sample
GoodArgs ==
    {x \in AllArgs : x.l_min <= x.l_max /\ x.bandwidth > 0 /\ x.num_time_samples > 0}

\* the configurations two concurrent callers are run on
PairArgs ==
    {Args(w, 1, lo, hi, nc) : w \in {1, 2}, lo \in {-1, 0}, hi \in {0, 1}, nc \in BOOLEAN}

\* ---------------------------------------------------- the channel model
\* What the sampler may hand back: the gain of a path alternates between the
\* two values of a pair on the odd links and is the first value on the even
\* ones; path m has delay (d0 + m - 1) mod (MaxDelay + 1).
Gains(B, M, T, g) ==
    [b \in 1..B |-> [k \in 1..NumLinks |-> [m \in 1..M |-> [t \in 1..T |->
        IF k % 2 = 0 THEN g[1] ELSE g[((b + m + t) % 2) + 1]]]]]

Delays(B, M, d0) ==
    [b \in 1..B |-> [m \in 1..M |-> (d0 + m - 1) % (MaxDelay + 1)]]

\* a sampler that keeps its contract returns "ok" responses only
Defects == {"ok", "time", "lead"}

\* responses of every shape, the sampler's contract kept or not
ShapeRange ==
    [sizes   |-> {None} \cup {<<n>> : n \in 1..MaxBatch},
     batches |-> 1..MaxBatch,
     paths   |-> 1..MaxPaths,
     gains   |-> {<<<<1, 0>>, CZero>>},
     delays  |-> {0},
     defects |-> Defects]

\* well-shaped responses of varied gains and delays
TapsRange ==
    [sizes   |-> {None, <<1>>},
     batches |-> {MaxBatch},
     paths   |-> 1..MaxPaths,
     gains   |-> {<<CZero, CZero>>, <<<<1, 0>>, <<1, 0>>>>, <<<<1, 0>>, CZero>>,
                  <<<<0, 1>>, <<-1, 0>>>>},
     delays  |-> 0..MaxDelay,
     defects |-> {"ok", "lead"}]

\* the responses two concurrent callers are given
PairRange ==
    [sizes   |-> {None},
     batches |-> {1},
     paths   |-> {1, 2},
     gains   |-> {<<CZero, CZero>>, <<<<1, 0>>, <<1, 0>>>>, <<<<-1, 0>>, <<-1, 0>>>>,
                  <<<<0, 1>>, <<0, 1>>>>, <<<<2, 0>>, <<2, 0>>>>,
                  <<<<1, 0>>, CZero>>, <<<<2, 0>>, CZero>>},
     delays  |-> {0, 1},
     defects |-> {"ok", "lead"}]

\* the impulse responses the sampler may return for sampler(bs, n, w)
Responses(bs, n, w, range) ==
    {[a   |-> Gains(B, M, IF d = "time" THEN (IF n < 0 THEN 0 ELSE n) + 1 ELSE n, g),
      tau |-> Delays(IF d = "lead" THEN B + 1 ELSE B, M, d0)] :
        B \in (IF bs = None THEN range.batches ELSE {bs[1]}),
        M \in range.paths, g \in range.gains, d0 \in range.delays,
        d \in {x \in range.defects : x = "time" \/ n >= 0}}

\* ------------------------------------------------- cir_to_time_channel
\* path gains and path delays agree on the batch and path dimensions
SameLeadingDims(a, t) ==
    /\ BatchDim(a) = BatchDim(t)
    /\ \A b \in 1..BatchDim(a) : Len(t[b]) = PathDim(a)

\* tap of lag l: the sum over the paths of gain * sinc(l - bandwidth * delay)
Tap(bandwidth, a, t, b, k, i, l) ==
    CSum([m \in 1..PathDim(a) |->
            CScale(a[b][k][m][i], Sinc2(2 * l - bandwidth * t[b][m]))])

Taps(bandwidth, a, t, l_min, l_max) ==
    [b \in 1..BatchDim(a) |-> [k \in 1..Len(a[b]) |-> [i \in 1..TimeDim(a) |->
        [j \in 1..(l_max - l_min + 1) |->
            Tap(bandwidth, a, t, b, k, i, l_min + j - 1)]]]]

\* sum over the time steps, links and lags of the squared magnitudes of the
\* taps of batch example b
TotalEnergy(x, b) ==
    NSum([i \in 1..HmTimeDim(x) |->
        NSum([k \in 1..Len(x[b]) |->
            NSum([j \in 1..Len(x[b][k][i]) |-> AbsSq(x[b][k][i][j])])])])

\* ROOTQ * sqrt(energy), the energy being the average over the time steps
RootEnergy(x, b) ==
    IF HmTimeDim(x) = 0 THEN 0
    ELSE ISqrt((TotalEnergy(x, b) \div HmTimeDim(x)) * ROOTQ * ROOTQ)

\* faulty variant: the division by a zero energy is not guarded
RescaleUnguarded(z, c) ==
    IF c = 0 THEN NaN
    ELSE <<DivRound(z[1] * SCALE * ROOTQ, c), DivRound(z[2] * SCALE * ROOTQ, c)>>

\* z / sqrt(energy); a zero energy leaves the (zero) tap as it is
Rescale(z, c) ==
    IF c = 0 THEN z
    ELSE <<DivRound(z[1] * SCALE * ROOTQ, c), DivRound(z[2] * SCALE * ROOTQ, c)>>

Normalize(x) ==
    [b \in 1..Len(x) |->
        LET c == RootEnergy(x, b)
        IN  [k \in 1..Len(x[b]) |-> [i \in 1..Len(x[b][k]) |->
                [j \in 1..Len(x[b][k][i]) |-> Rescale(x[b][k][i][j], c)]]]]

cir_to_time_channel(bandwidth, a, t, l_min, l_max, normalize) ==
    IF ~SameLeadingDims(a, t)
    THEN [error |-> "ShapeMismatchError", hm |-> << >>]
    ELSE LET x == Taps(bandwidth, a, t, l_min, l_max)
         IN  [error |-> NoError, hm |-> IF normalize THEN Normalize(x) ELSE x]

\* ------------------------------------------------------------------ actions
Init ==
    /\ constructed = FALSE
    /\ given = Args(0, 0, 0, 0, FALSE)
    /\ self = Blank
    /\ pc = [c \in Callers |-> "idle"]
    /\ batch_size = [c \in Callers |-> None]
    /\ invoked = [c \in Callers |-> << >>]
    /\ h = [c \in Callers |-> << >>]
    /\ tau = [c \in Callers |-> << >>]
    /\ hm = [c \in Callers |-> << >>]
    /\ err = [c \in Callers |-> NoError]

\* faulty variant: __init__ draws a first impulse response from the sampler
ConstructSampling(args) ==
    /\ ~constructed
    /\ \E x \in args :
         /\ given' = x
         /\ self' = GenerateTimeChannel(ChannelModel, x.bandwidth, x.num_time_samples,
                                        x.l_min, x.l_max, x.normalize_channel)
         /\ invoked' = [invoked EXCEPT ![1] =
                <<<<ChannelModel, <<None, x.num_time_samples + x.l_max - x.l_min,
                                   x.bandwidth>>>>>>]
    /\ constructed' = TRUE
    /\ UNCHANGED <<pc, batch_size, h, tau, hm, err>>

\* GenerateTimeChannel(channel_model, ...): __init__ stores its arguments
Construct(args) ==
    /\ ~constructed
    /\ \E x \in args :
         /\ given' = x
         /\ self' = GenerateTimeChannel(ChannelModel, x.bandwidth, x.num_time_samples,
                                        x.l_min, x.l_max, x.normalize_channel)
    /\ constructed' = TRUE
    /\ UNCHANGED <<pc, batch_size, invoked, h, tau, hm, err>>

\* faulty variant: one sampling instant too many
SamplerArgsOneMore(obj, bs) ==
    <<bs, obj.num_time_steps + obj.l_tot, obj.bandwidth>>

\* the arguments __call__ gives the sampler
SamplerArgs(obj, bs) ==
    <<bs, obj.num_time_steps + obj.l_tot - 1, obj.bandwidth>>

\* faulty variant: the number of sampling instants is computed in place, in the
\* attribute
SampleAccumulating(c, range) ==
    /\ constructed
    /\ pc[c] = "idle"
    /\ self' = [self EXCEPT !.num_time_steps = @ + self.l_tot - 1]
    /\ \E bs \in range.sizes :
         LET req == <<bs, self.num_time_steps + self.l_tot - 1, self.bandwidth>>
         IN  /\ batch_size' = [batch_size EXCEPT ![c] = bs]
             /\ invoked' = [invoked EXCEPT ![c] = Append(@, <<self.cir_sampler, req>>)]
             /\ \/ \E r \in Responses(req[1], req[2], req[3], range) :
                      /\ h' = [h EXCEPT ![c] = r.a]
                      /\ tau' = [tau EXCEPT ![c] = r.tau]
                      /\ pc' = [pc EXCEPT ![c] = "sampled"]
                      /\ err' = err
                \/ /\ pc' = [pc EXCEPT ![c] = "raised"]
                   /\ err' = [err EXCEPT ![c] = "SamplerError"]
                   /\ UNCHANGED <<h, tau>>
    /\ UNCHANGED <<constructed, given, hm>>

\* __call__, first statement: h, tau = self._cir_sampler(...); the sampler
\* returns an impulse response or raises
Sample(c, range) ==
    /\ constructed
    /\ pc[c] = "idle"
    /\ \E bs \in range.sizes :
         LET req == SamplerArgs(self, bs)
         IN  /\ batch_size' = [batch_size EXCEPT ![c] = bs]
             /\ invoked' = [invoked EXCEPT ![c] = Append(@, <<self.cir_sampler, req>>)]
             /\ \/ \E r \in Responses(req[1], req[2], req[3], range) :
                      /\ h' = [h EXCEPT ![c] = r.a]
                      /\ tau' = [tau EXCEPT ![c] = r.tau]
                      /\ pc' = [pc EXCEPT ![c] = "sampled"]
                      /\ err' = err
                \/ /\ pc' = [pc EXCEPT ![c] = "raised"]
                   /\ err' = [err EXCEPT ![c] = "SamplerError"]
                   /\ UNCHANGED <<h, tau>>
    /\ UNCHANGED <<constructed, given, self, hm>>

\* the call returns r.hm, or the exception of cir_to_time_channel reaches
\* the caller
Deliver(c, r) ==
    /\ IF r.error = NoError
       THEN /\ hm' = [hm EXCEPT ![c] = r.hm]
            /\ pc' = [pc EXCEPT ![c] = "returned"]
            /\ err' = err
       ELSE /\ pc' = [pc EXCEPT ![c] = "raised"]
            /\ err' = [err EXCEPT ![c] = r.error]
            /\ hm' = hm
    /\ UNCHANGED <<constructed, given, self, batch_size, invoked, h, tau>>

\* faulty variant: the exception is caught and an empty tensor returned
ConvertRecovering(c) ==
    /\ pc[c] = "sampled"
    /\ LET r == cir_to_time_channel(self.bandwidth, h[c], tau[c], self.l_min,
                                    self.l_max, self.normalize_channel)
       IN  Deliver(c, [error |-> NoError, hm |-> r.hm])

\* faulty variant: l_max and l_min are passed in each other's place
ConvertSwappedLags(c) ==
    /\ pc[c] = "sampled"
    /\ Deliver(c, cir_to_time_channel(self.bandwidth, h[c], tau[c], self.l_max,
                                      self.l_min, self.normalize_channel))

\* faulty variant: the normalization flag is not passed on
ConvertUnnormalized(c) ==
    /\ pc[c] = "sampled"
    /\ Deliver(c, cir_to_time_channel(self.bandwidth, h[c], tau[c], self.l_min,
                                      self.l_max, FALSE))

\* faulty variant: the channel is normalized whatever the flag
ConvertAlwaysNormalized(c) ==
    /\ pc[c] = "sampled"
    /\ Deliver(c, cir_to_time_channel(self.bandwidth, h[c], tau[c], self.l_min,
                                      self.l_max, TRUE))

\* faulty variant: h and tau are attributes of the object, which the callers share:
\* a call converts what the sampler handed to the latest call
ConvertShared(c) ==
    /\ pc[c] = "sampled"
    /\ LET others == {d \in Callers : d # c /\ pc[d] = "sampled"}
           src == IF others = {} THEN c ELSE CHOOSE d \in others : TRUE
       IN  Deliver(c, cir_to_time_channel(self.bandwidth, h[src], tau[src],
                                          self.l_min, self.l_max,
                                          self.normalize_channel))

\* __call__, second statement and return: hm = cir_to_time_channel(...)
Convert(c) ==
    /\ pc[c] = "sampled"
    /\ Deliver(c, cir_to_time_channel(self.bandwidth, h[c], tau[c], self.l_min,
                                      self.l_max, self.normalize_channel))

\* the caller has the result or the exception; the frame of the call is gone
Finish(c) ==
    /\ pc[c] \in {"returned", "raised"}
    /\ pc' = [pc EXCEPT ![c] = "idle"]
    /\ batch_size' = [batch_size EXCEPT ![c] = None]
    /\ invoked' = [invoked EXCEPT ![c] = << >>]
    /\ h' = [h EXCEPT ![c] = << >>]
    /\ tau' = [tau EXCEPT ![c] = << >>]
    /\ hm' = [hm EXCEPT ![c] = << >>]
    /\ err' = [err EXCEPT ![c] = NoError]
    /\ UNCHANGED <<constructed, given, self>>

\* one caller, every configuration, responses of every shape
Next ==
    \/ Construct(AllArgs)
    \/ Sample(1, ShapeRange)
    \/ Convert(1)
    \/ Finish(1)

Spec == Init /\ [][Next]_vars

\* one caller, the documented configurations, responses of varied content
NextTaps ==
    \/ Construct(GoodArgs)
    \/ Sample(1, TapsRange)
    \/ Convert(1)
    \/ Finish(1)

SpecTaps == Init /\ [][NextTaps]_vars

\* two callers whose calls interleave
NextPair ==
    \/ Construct(PairArgs)
    \/ \E c \in Callers : Sample(c, PairRange)
    \/ \E c \in Callers : Convert(c)
    \/ \E c \in Callers : Finish(c)

SpecPair == Init /\ [][NextPair]_vars

\* ------------------------------------------------------------- vocabulary
One == <<SCALE, 0>>

\* the object __init__ builds from the arguments it was given
AsGiven ==
    GenerateTimeChannel(ChannelModel, given.bandwidth, given.num_time_samples,
                        given.l_min, given.l_max, given.normalize_channel)

ValidArgs(x) == x.l_min <= x.l_max /\ x.bandwidth > 0 /\ x.num_time_samples > 0

\* the number of sampling instants the current call of c asked the sampler for
Requested(c) == invoked[c][1][2][2]

\* the sampler gave the call as many sampling instants as it was asked for
ContractKept(c) == TimeDim(h[c]) = Requested(c)

AllGains(a, z) ==
    \A b \in 1..Len(a) : \A k \in 1..Len(a[b]) : \A m \in 1..Len(a[b][k]) :
        \A i \in 1..Len(a[b][k][m]) : a[b][k][m][i] = z

AllDelays(t, d) == \A b \in 1..Len(t) : \A m \in 1..Len(t[b]) : t[b][m] = d

\* the rows of a tap tensor: the <<batch example, link, time step>> triples
Rows(x) ==
    {<<b, k, i>> : b \in 1..Len(x), k \in 1..NumLinks, i \in 1..HmTimeDim(x)}

\* the call of c ended in the exception of cir_to_time_channel
ShapeRaised(c) == pc[c] = "raised" /\ err[c] = "ShapeMismatchError"

ScaleGains(a, z) ==
    [b \in 1..Len(a) |-> [k \in 1..Len(a[b]) |-> [m \in 1..Len(a[b][k]) |->
        [i \in 1..Len(a[b][k][m]) |-> CMul(z, a[b][k][m][i])]]]]

\* the same operation on a tap tensor, whose nesting is as deep
ScaleTaps(x, z) == ScaleGains(x, z)

Scalars == {<<-1, 0>>, <<0, 1>>, <<2, 0>>, <<0, 0>>}

\* ----------------------------------------------------------------- claims

\* C1: a call invokes the sampler given at construction exactly once, with
\* (batch_size, num_time_samples + l_tot - 1, bandwidth) made of the
\* construction arguments, l_tot = l_max - l_min + 1, and of the call's own
\* batch_size, None included, as it is.
C1_SamplerInvokedOnce ==
    constructed =>
        \A c \in Callers :
            IF pc[c] = "idle" THEN invoked[c] = << >>
            ELSE invoked[c] =
                    << <<ChannelModel,
                         <<batch_size[c],
                           given.num_time_samples + (given.l_max - given.l_min + 1) - 1,
                           given.bandwidth>> >> >>

C1_Witness ==
    /\ pc[1] = "returned" /\ batch_size[1] = None /\ Len(invoked[1]) = 1
    /\ given.l_min < given.l_max /\ given.num_time_samples = 2

\* C2: for valid construction arguments and a sampler that returns as many
\* sampling instants as it is asked for, the returned tensor has
\* num_time_samples + l_max - l_min time steps and l_max - l_min + 1 lags.
C2_OutputShape ==
    \A c \in Callers :
        (pc[c] = "returned" /\ ValidArgs(given) /\ ContractKept(c)) =>
            /\ HmTimeDim(hm[c]) = given.num_time_samples + given.l_max - given.l_min
            /\ \A b \in 1..Len(hm[c]) : \A k \in 1..Len(hm[c][b]) :
                 /\ Len(hm[c][b][k]) = given.num_time_samples + given.l_max - given.l_min
                 /\ \A i \in 1..Len(hm[c][b][k]) :
                      Len(hm[c][b][k][i]) = given.l_max - given.l_min + 1

C2_Witness ==
    /\ pc[1] = "returned" /\ ValidArgs(given) /\ ContractKept(1)
    /\ given.l_min = -1 /\ given.l_max = 1 /\ given.num_time_samples = 2
    /\ batch_size[1] = <<2>> /\ Len(hm[1]) = 2
    /\ HmTimeDim(hm[1]) = 4 /\ HmLagDim(hm[1]) = 3

\* C3 as stated: a generator whose configuration has l_min > l_max,
\* bandwidth <= 0 or num_time_samples <= 0 never reaches a state in which
\* the sampler has been invoked.
C3_InvalidConfigurationNeverSamples ==
    (constructed /\ ~ValidArgs(given)) => \A c \in Callers : invoked[c] = << >>

\* C3 amended: construction checks nothing: it stores its arguments as they
\* are given, whatever they are, and does not invoke the sampler.
C3_ConstructionStoresUnchecked ==
    [][(~constructed /\ constructed') =>
            /\ self' = AsGiven'
            /\ \A c \in Callers : invoked'[c] = << >> /\ pc'[c] = "idle"]_vars

C3_Witness ==
    /\ constructed /\ given.l_min > given.l_max /\ given.bandwidth = 0
    /\ given.num_time_samples = 0
    /\ self.l_tot <= 0
    /\ \A c \in Callers : pc[c] = "idle" /\ invoked[c] = << >>

\* C4: with normalize_channel set and path gains that are all zero, the call
\* does not end in a numerical error and every tap it returns is finite and
\* zero.
C4_ZeroEnergyGuard ==
    \A c \in Callers :
        (given.normalize_channel /\ pc[c] \in {"returned", "raised"}
            /\ err[c] # "SamplerError" /\ AllGains(h[c], CZero)) =>
            /\ pc[c] = "raised" => (err[c] = "ShapeMismatchError"
                                      /\ ~SameLeadingDims(h[c], tau[c]))
            /\ pc[c] = "returned" =>
                 \A r \in Rows(hm[c]) : \A j \in 1..Len(hm[c][r[1]][r[2]][r[3]]) :
                    /\ IsFinite(hm[c][r[1]][r[2]][r[3]][j])
                    /\ hm[c][r[1]][r[2]][r[3]][j] = CZero

C4_Witness ==
    /\ given.normalize_channel /\ pc[1] = "returned" /\ AllGains(h[1], CZero)
    /\ Len(hm[1]) = 2 /\ HmTimeDim(hm[1]) >= 2 /\ HmLagDim(hm[1]) >= 2
    /\ PathDim(h[1]) = 2

\* C5 as stated: a call on a validly configured generator returns a tensor
\* only if the sampler's path gains and
\* path delays agree on their leading dimensions and the path gains have the
\* requested number of sampling instants.
C5_NoTensorFromMismatch ==
    \A c \in Callers :
        (pc[c] = "returned" /\ ValidArgs(given)) =>
            (SameLeadingDims(h[c], tau[c]) /\ ContractKept(c))

\* C5 amended: path gains and path delays that disagree on their leading
\* dimensions end the call in a shape-mismatch error and no tensor is
\* returned; a number of sampling instants other than the requested one is
\* not detected, the returned tensor has as many time steps as the sampler
\* returned.
C5_LeadingMismatchSurfaced ==
    \A c \in Callers :
        /\ pc[c] = "returned" =>
              /\ SameLeadingDims(h[c], tau[c])
              /\ \A b \in 1..Len(hm[c]) : \A k \in 1..Len(hm[c][b]) :
                    Len(hm[c][b][k]) = TimeDim(h[c])
        /\ (pc[c] = "raised" /\ err[c] # "SamplerError") =>
              /\ err[c] = "ShapeMismatchError"
              /\ ~SameLeadingDims(h[c], tau[c])
              /\ hm[c] = << >>

C5_Witness ==
    /\ ShapeRaised(1) /\ ~SameLeadingDims(h[1], tau[1]) /\ hm[1] = << >>
    /\ ContractKept(1) /\ ValidArgs(given)

\* C6: without normalization, one path of delay 0 and gain 1 at every
\* sampling instant gives, at every time step, a tap 1 at lag 0 (lag index
\* -l_min) and a tap 0 at every other lag.
C6_SinglePathIdentity ==
    \A c \in Callers :
        (pc[c] = "returned" /\ ~given.normalize_channel /\ PathDim(h[c]) = 1
            /\ AllGains(h[c], <<1, 0>>) /\ AllDelays(tau[c], 0)) =>
            \A r \in Rows(hm[c]) :
                LET row == hm[c][r[1]][r[2]][r[3]]
                IN  /\ (given.l_min <= 0 /\ 0 <= given.l_max) =>
                        (Len(row) > -given.l_min /\ row[1 - given.l_min] = One)
                    /\ \A j \in 1..Len(row) : j - 1 # -given.l_min => row[j] = CZero

C6_Witness ==
    /\ pc[1] = "returned" /\ ~given.normalize_channel /\ PathDim(h[1]) = 1
    /\ AllGains(h[1], <<1, 0>>) /\ AllDelays(tau[1], 0)
    /\ given.l_min = -1 /\ given.l_max = 1 /\ given.num_time_samples = 2
    /\ given.bandwidth = 2
    /\ \A r \in Rows(hm[1]) : hm[1][r[1]][r[2]][r[3]] = <<CZero, One, CZero>>
    /\ HmTimeDim(hm[1]) = 4

\* C7: with normalize_channel set, for every batch example of nonzero energy
\* the sum of the squared magnitudes of the returned taps over the lags and
\* links, averaged over the time steps, is 1 within TolPerMille / 1000;
\* without it the taps are returned as computed.
C7_UnitAverageEnergy ==
    \A c \in Callers :
        pc[c] = "returned" =>
            LET raw == Taps(given.bandwidth, h[c], tau[c], given.l_min, given.l_max)
                n == HmTimeDim(hm[c])
            IN  IF given.normalize_channel
                THEN \A b \in 1..Len(hm[c]) :
                        TotalEnergy(raw, b) > 0 =>
                            1000 * Abs(TotalEnergy(hm[c], b) - n * SCALE * SCALE)
                                <= TolPerMille * n * SCALE * SCALE
                ELSE hm[c] = raw

C7_Witness ==
    /\ pc[1] = "returned" /\ given.normalize_channel /\ Len(hm[1]) = 2
    /\ PathDim(h[1]) = 2
    /\ LET raw == Taps(given.bandwidth, h[1], tau[1], given.l_min, given.l_max)
       IN  /\ TotalEnergy(raw, 1) > 0 /\ TotalEnergy(raw, 2) > 0
           /\ TotalEnergy(raw, 1) # TotalEnergy(raw, 2)
           /\ hm[1] # raw

\* C8: without normalization, if the sampler hands one call the path gains
\* of another multiplied by a constant, with the same delays, the first
\* call's taps are the other's multiplied by that constant.
C8_Linearity ==
    \A c \in Callers : \A d \in Callers : \A z \in Scalars :
        (pc[c] = "returned" /\ pc[d] = "returned" /\ ~given.normalize_channel
            /\ tau[d] = tau[c] /\ h[d] = ScaleGains(h[c], z)) =>
            hm[d] = ScaleTaps(hm[c], z)

C8_Witness ==
    /\ pc[1] = "returned" /\ pc[2] = "returned" /\ ~given.normalize_channel
    /\ tau[2] = tau[1] /\ h[2] = ScaleGains(h[1], <<2, 0>>)
    /\ PathDim(h[1]) = 2 /\ ~AllGains(h[1], CZero) /\ ~AllDelays(tau[1], 0)
    /\ hm[2] = ScaleTaps(hm[1], <<2, 0>>) /\ hm[2] # hm[1]
    /\ given.bandwidth = 2 /\ given.l_min = -1 /\ given.l_max = 1

\* C9: once constructed, the generator's attributes are the seven that
\* __init__ set, with the values it set, l_tot = l_max - l_min + 1, whatever
\* calls have run, returned or failed; no other attribute appears.
C9_ConfigurationFrozen ==
    constructed =>
        /\ self = AsGiven
        /\ self.l_tot = self.l_max - self.l_min + 1
        /\ DOMAIN self = {"cir_sampler", "l_min", "l_max", "l_tot", "bandwidth",
                          "num_time_steps", "normalize_channel"}

C9_Witness ==
    /\ constructed /\ pc[1] = "returned" /\ ShapeRaised(2)
    /\ hm[1] # << >> /\ given.normalize_channel

\* C10: whatever the interleaving, the tensor a call returns is the
\* conversion, under the construction arguments, of the impulse response the
\* sampler handed to that call; two calls handed the same impulse response
\* return the same tensor.
C10_CallsIndependent ==
    /\ \A c \in Callers :
          pc[c] = "returned" =>
              hm[c] = cir_to_time_channel(given.bandwidth, h[c], tau[c], given.l_min,
                                          given.l_max, given.normalize_channel).hm
    /\ \A c \in Callers : \A d \in Callers :
          (pc[c] = "returned" /\ pc[d] = "returned" /\ h[c] = h[d] /\ tau[c] = tau[d])
              => hm[c] = hm[d]

C10_Witness ==
    /\ pc[1] = "returned" /\ pc[2] = "returned"
    /\ h[1] = h[2] /\ tau[1] = tau[2] /\ hm[1] = hm[2]
    /\ ~AllGains(h[1], CZero) /\ PathDim(h[1]) = 2 /\ given.normalize_channel

====
